---- MODULE Spec2Model ----
(***************************************************************************)
(* Model of the forwarding gateway of app/api/v1/[[...path]]/route.ts      *)
(* (src/unnamed/part_002): origin resolution, URL construction, header     *)
(* filtering, body passthrough, response reconstruction and the 502        *)
(* envelope, as a per-request state machine; and of the two components of *)
(* src/unnamed/part_001 whose handlers overlap in time: FileUpload (upload, *)
(* progress interval, delayed reset) and DatabaseStatistics (fetchStats).  *)
(*                                                                         *)
(* Strings that the code takes apart (paths, query keys and values) are    *)
(* sequences of one-character strings; strings it only copies or compares  *)
(* (origins, header values, messages) are TLA+ strings.  An optional value *)
(* is <<>> (null / undefined) or <<x>> (present).                          *)
(***************************************************************************)
EXTENDS Integers, Sequences, FiniteSets, TLC

\* ------------------------------------------------------------------ bounds
MaxSegLen == 2    \* characters per path segment
MaxQuery  == 2    \* inbound query parameters
MaxHdrs   == 2    \* inbound headers
MaxBody   == 1    \* bytes of an inbound body
MaxPicked == 2    \* File objects handed to FileUpload
MaxUploads == 2   \* handleUpload calls
MaxFetches == 3   \* fetchStats calls
MaxHops   == 2    \* HTTP requests one fetch call sends (redirects followed)

\* ------------------------------------------------------- optional values
None == <<>>
Some(x) == <<x>>
IsSome(o) == o # <<>>
Get(o) == o[1]

SeqsUpTo(S, n) == UNION {[1..k -> S] : k \in 0..n}

\* A || B of JavaScript on strings: the empty string and undefined are falsy.
Null == "<undefined>"
Falsy(s) == s = Null \/ s = ""
OrElse(a, b) == IF Falsy(a) THEN b ELSE a

\* ------------------------------------------------------------ BACKEND_URL
DefaultOrigin == "http://localhost:8000"
PrivateOrigin == "http://backend.internal:8000"
PublicOrigin  == "https://api.example.com"

\* A configured value without a scheme: new URL() rejects what is built on it.
SchemelessOrigin == "10.0.0.5:8000"

\* process.env at module load: each variable unset, set, or set to nothing.
Envs ==
  [BACKEND_API_URL : {Null, "", PrivateOrigin},
   NEXT_PUBLIC_API_URL : {Null, PublicOrigin, SchemelessOrigin}]

\* Variant: the public variable is looked at first.
ResolvePublicFirst(e) ==
  OrElse(e.NEXT_PUBLIC_API_URL, OrElse(e.BACKEND_API_URL, DefaultOrigin))

ResolveBackendUrl(e) ==
  OrElse(e.BACKEND_API_URL, OrElse(e.NEXT_PUBLIC_API_URL, DefaultOrigin))

\* ---------------------------------------------------------------- methods
\* The methods routed to handler: the five exports that call it, and HEAD,
\* which the framework serves with the GET export when none is exported.
HandlerMethods == {"GET", "HEAD", "POST", "PUT", "DELETE", "PATCH"}
Methods == HandlerMethods \cup {"OPTIONS"}

\* --------------------------------------------------------- URL construction
PathChars == {"a", "?", "#"}
Segments == SeqsUpTo(PathChars, MaxSegLen) \ {<<>>}

RECURSIVE Join(_, _)
\* Array.prototype.join: the elements separated by sep.
Join(segs, sep) ==
  IF Len(segs) = 0 THEN <<>>
  ELSE IF Len(segs) = 1 THEN segs[1]
  ELSE segs[1] \o <<sep>> \o Join(Tail(segs), sep)

\* params.path?.join('/') || ''
PathOf(params) == IF IsSome(params) THEN Join(Get(params), "/") ELSE <<>>

\* Index of the first element of s that is in C, or Len(s) + 1.
RECURSIVE FirstIn(_, _, _)
FirstIn(s, C, i) ==
  IF i > Len(s) THEN Len(s) + 1
  ELSE IF s[i] \in C THEN i
  ELSE FirstIn(s, C, i + 1)

\* Pieces of s between occurrences of sep (String.prototype.split).
RECURSIVE Split(_, _)
Split(s, sep) ==
  LET i == FirstIn(s, {sep}, 1) IN
    IF i > Len(s) THEN <<s>>
    ELSE <<SubSeq(s, 1, i - 1)>> \o Split(SubSeq(s, i + 1, Len(s)), sep)

\* application/x-www-form-urlencoded parsing of a query string: the non-empty
\* pieces between "&", each cut at its first "=".
ParseQuery(raw) ==
  LET pieces == SelectSeq(Split(raw, "&"), LAMBDA p : p # <<>>)
      Pair(p) == LET i == FirstIn(p, {"="}, 1) IN
                   [key |-> SubSeq(p, 1, i - 1), value |-> SubSeq(p, i + 1, Len(p))]
  IN [k \in 1..Len(pieces) |-> Pair(pieces[k])]

\* new URL(...) throws a TypeError when its argument has no scheme.
NewURLThrows(origin) == origin = SchemelessOrigin

\* new URL(`${BACKEND_URL}/api/v1/${path}`): the URL parser ends the path at
\* the first "?" or "#", the query at the first "#"; the rest is the fragment.
NewURL(origin, path) ==
  LET p == FirstIn(path, {"?", "#"}, 1)
      afterPath == SubSeq(path, p + 1, Len(path))
      hasQuery == p <= Len(path) /\ path[p] = "?"
      h == IF hasQuery THEN FirstIn(afterPath, {"#"}, 1) ELSE 0
  IN [origin   |-> origin,
      pathname |-> <<"/api/v1/">> \o SubSeq(path, 1, p - 1),
      search   |-> IF hasQuery THEN ParseQuery(SubSeq(afterPath, 1, h - 1)) ELSE <<>>,
      hash     |-> IF hasQuery THEN SubSeq(afterPath, h + 1, Len(afterPath))
                   ELSE afterPath]

\* request.nextUrl.searchParams.forEach((value, key) => url.searchParams.append(key, value))
AppendSearchParams(url, query) ==
  [url EXCEPT !.search = url.search \o query]

\* The URL the outbound request is sent to: fetch drops the fragment.
BuildUrl(origin, params, query) ==
  LET url == AppendSearchParams(NewURL(origin, PathOf(params)), query)
  IN [origin |-> url.origin, pathname |-> url.pathname, search |-> url.search]

\* ----------------------------------------------------------------- headers
\* Header names as they arrive on the wire, and their lower-case forms.
RawHeaderNames ==
  {"Host", "connection", "Keep-Alive", "Transfer-Encoding", "upgrade",
   "Content-Length", "Authorization", "X-Custom", "content-type"}

LowerTable ==
  ("Host" :> "host") @@ ("Keep-Alive" :> "keep-alive") @@
  ("Transfer-Encoding" :> "transfer-encoding") @@
  ("Content-Length" :> "content-length") @@
  ("Authorization" :> "authorization") @@ ("X-Custom" :> "x-custom")

\* String.prototype.toLowerCase on header names.
ToLowerCase(s) == IF s \in DOMAIN LowerTable THEN LowerTable[s] ELSE s

HeaderValues == {"v1", "v2"}

\* request.headers: the Headers object keeps every name in lower case.
RequestHeaders(raw) ==
  [k \in {ToLowerCase(n) : n \in DOMAIN raw} |->
     raw[CHOOSE n \in DOMAIN raw : ToLowerCase(n) = k]]

skipHeaders ==
  {"host", "connection", "keep-alive", "transfer-encoding", "upgrade", "content-length"}

\* Variant: content-length is not on the list.
IsSkippedButContentLength(key) ==
  ToLowerCase(key) \in skipHeaders \ {"content-length"}

IsSkipped(key) == ToLowerCase(key) \in skipHeaders

getForwardHeaders(request) ==
  LET h == RequestHeaders(request.headers)
  IN [k \in {k \in DOMAIN h : ~IsSkipped(k)} |-> h[k]]

\* ------------------------------------------------------------------ bodies
Bytes == {0, 255}
Bodies == {None} \cup {Some(b) : b \in SeqsUpTo(Bytes, MaxBody)}

\* Variant: the method is not looked at.
ReadsBodyAnyMethod(request) == IsSome(request.body)

\* request.method !== 'GET' && request.method !== 'HEAD' && request.body
ReadsBody(request) ==
  request.method # "GET" /\ request.method # "HEAD" /\ IsSome(request.body)

\* Variant: the bytes read are forwarded whatever their number.
OutboundBodyKeepsEmpty(request) ==
  IF ReadsBody(request) THEN Some(Get(request.body)) ELSE None

\* requestOptions.body: set only when the bytes read are not empty.
OutboundBody(request) ==
  IF ReadsBody(request) /\ Len(Get(request.body)) > 0
  THEN Some(Get(request.body)) ELSE None

\* fetch(url.toString(), requestOptions)
OutboundRequest(origin, request) ==
  [method  |-> request.method,
   url     |-> BuildUrl(origin, request.params, request.query),
   headers |-> getForwardHeaders(request),
   body    |-> OutboundBody(request)]

\* --------------------------------------------------------------- responses
\* What the backend can answer with: status, selected headers, body.
Statuses == {200, 201, 204, 304, 404, 500}

StatusText(status) ==
  CASE status = 200 -> "OK"
    [] status = 201 -> "Created"
    [] status = 204 -> "No Content"
    [] status = 304 -> "Not Modified"
    [] status = 404 -> "Not Found"
    [] status = 500 -> "Internal Server Error"

\* Statuses for which the Response constructor accepts no body (Fetch: a "null
\* body status"); with a body, even an empty ArrayBuffer, it throws a TypeError.
NullBodyStatuses == {101, 103, 204, 205, 304}

\* Response headers of the backend other than Content-Type and Cache-Control.
NoHeaders == [n \in {} |-> ""]
ExtraHeaderSets ==
  {NoHeaders,
   ("Set-Cookie" :> "sid=1"),
   ("Access-Control-Allow-Origin" :> "https://backend.internal") @@
     ("Access-Control-Allow-Methods" :> "GET") @@ ("X-Internal" :> "1")}

\* Every status with and without a body; every combination of the two copied
\* headers (absent, empty, set) on a 200; the other headers on a 200.
StatusResponses ==
  {b \in [status       : Statuses,
          contentType  : {None, Some("application/json")},
          cacheControl : {None},
          extra        : {NoHeaders},
          body         : {<<>>, <<123, 125>>}] :
     b.status \in NullBodyStatuses => b.body = <<>>}
HeaderResponses ==
  [status       : {200},
   contentType  : {None, Some(""), Some("application/json"), Some("text/html")},
   cacheControl : {None, Some(""), Some("max-age=60")},
   extra        : {NoHeaders},
   body         : {<<123, 125>>}]
ExtraHeaderResponses ==
  [status       : {200},
   contentType  : {Some("text/html")},
   cacheControl : {None},
   extra        : ExtraHeaderSets,
   body         : {<<123, 125>>}]
BackendResponses == StatusResponses \cup HeaderResponses \cup ExtraHeaderResponses

\* backendResponse.headers.get(name) || fallback
HeaderOr(h, fallback) == IF IsSome(h) THEN OrElse(Get(h), fallback) ELSE fallback

RelayAllowMethods == "GET, POST, PUT, DELETE, OPTIONS"
PreflightAllowMethods == "GET, POST, PUT, DELETE, PATCH, OPTIONS"

\* Variant: the backend's other headers are passed on as well.
RelayResponseAllHeaders(b) ==
  [status     |-> b.status,
   statusText |-> StatusText(b.status),
   headers    |->
     ("Content-Type" :> HeaderOr(b.contentType, "application/json")) @@
     ("Cache-Control" :> HeaderOr(b.cacheControl, "no-store")) @@
     b.extra @@
     ("Access-Control-Allow-Origin" :> "*") @@
     ("Access-Control-Allow-Methods" :> RelayAllowMethods) @@
     ("Access-Control-Allow-Headers" :> "Content-Type, Authorization"),
   body       |-> Some(b.body)]

\* new NextResponse(responseBody, {status, statusText, headers})
RelayResponse(b) ==
  [status     |-> b.status,
   statusText |-> StatusText(b.status),
   headers    |->
     ("Content-Type" :> HeaderOr(b.contentType, "application/json")) @@
     ("Cache-Control" :> HeaderOr(b.cacheControl, "no-store")) @@
     ("Access-Control-Allow-Origin" :> "*") @@
     ("Access-Control-Allow-Methods" :> RelayAllowMethods) @@
     ("Access-Control-Allow-Headers" :> "Content-Type, Authorization"),
   body       |-> Some(b.body)]

\* The constructor rejects a body, of any length, on a null body status.
ResponseConstructorThrows(status, body) ==
  IsSome(body) /\ status \in NullBodyStatuses

\* export async function OPTIONS
PreflightResponse ==
  [status     |-> 204,
   statusText |-> "",
   headers    |->
     ("Access-Control-Allow-Origin" :> "*") @@
     ("Access-Control-Allow-Methods" :> PreflightAllowMethods) @@
     ("Access-Control-Allow-Headers" :> "Content-Type, Authorization") @@
     ("Access-Control-Max-Age" :> "86400"),
   body       |-> None]

\* Thrown values: Error objects carry a message.
TransportErrors ==
  {[isError |-> TRUE, message |-> "fetch failed"],
   [isError |-> TRUE, message |-> "terminated"]}
BodyReadError == [isError |-> TRUE, message |-> "aborted"]
InvalidUrlError == [isError |-> TRUE, message |-> "Invalid URL"]
ConstructorError ==
  [isError |-> TRUE, message |-> "Response constructor: Invalid response status code"]

\* error instanceof Error ? error.message : 'Unknown error'
ErrorMessage(error) == IF error.isError THEN error.message ELSE "Unknown error"

\* Variant: backend_url names the URL that was being built, not the origin.
ErrorEnvelopeFullUrl(error, origin) ==
  [status     |-> 502,
   statusText |-> "",
   headers    |-> ("content-type" :> "application/json"),
   body       |-> Some([error       |-> "Backend connection failed",
                        message     |-> ErrorMessage(error),
                        backend_url |-> origin \o "/api/v1/"])]

\* NextResponse.json({error, message, backend_url}, {status: 502})
ErrorEnvelope(error, origin) ==
  [status     |-> 502,
   statusText |-> "",
   headers    |-> ("content-type" :> "application/json"),
   body       |-> Some([error       |-> "Backend connection failed",
                        message     |-> ErrorMessage(error),
                        backend_url |-> origin])]

\* ---------------------------------------------------------- inbound requests
QueryPairs ==
  {[key |-> <<"k">>, value |-> <<"1">>],
   [key |-> <<"k">>, value |-> <<"2">>],
   [key |-> <<"j">>, value |-> <<>>]}
Queries == SeqsUpTo(QueryPairs, MaxQuery)

\* params.path of the optional catch-all route: undefined, or the segments.
SimpleParams == {None, Some(<<<<"a">>>>)}
AllParams ==
  SimpleParams \cup {Some(<<sg>>) : sg \in Segments}
    \cup {Some(<<sg, <<"a">>>>) : sg \in Segments}
    \cup {Some(<<<<"a">>, sg>>) : sg \in Segments}

\* Header sets whose names differ also when compared without case.
HeaderSets ==
  UNION {[S -> HeaderValues] :
           S \in {T \in SUBSET RawHeaderNames :
                    /\ Cardinality(T) <= MaxHdrs
                    /\ \A m, n \in T : ToLowerCase(m) = ToLowerCase(n) => m = n}}

BaseHeaders == ("Host" :> "v1") @@ ("content-type" :> "v2")

\* The inbound requests: every method with every body; every path and every
\* query on a body-less request; every header set; OPTIONS with each of them.
MethodBodyRequests ==
  [method : Methods, params : SimpleParams, query : {<<>>},
   headers : {BaseHeaders}, body : Bodies]
PathRequests ==
  [method : {"GET", "OPTIONS"}, params : AllParams,
   query : {<<>>, <<[key |-> <<"k">>, value |-> <<"1">>]>>},
   headers : {BaseHeaders}, body : {None}]
QueryRequests ==
  [method : {"GET", "DELETE", "OPTIONS"}, params : SimpleParams \cup {Some(<<<<"a", "?">>, <<"a">>>>)},
   query : Queries, headers : {BaseHeaders}, body : {None}]
HeaderRequests ==
  [method : {"POST", "OPTIONS"}, params : {None}, query : {<<>>},
   headers : HeaderSets, body : {Some(<<0>>)}]
Requests == MethodBodyRequests \cup PathRequests \cup QueryRequests \cup HeaderRequests

\* -------------------------------------------------------------------- state
Reqs == {1}

VARIABLES
  env,          \* process.env
  envAt,        \* per request: process.env as it was when the request arrived
  BACKEND_URL,  \* the module-level constant, resolved when the module loads
  inbound,      \* per request: the inbound request, once received
  st,           \* per request: where its handling stands
  hist,         \* per request: the states it has been in, in order
  bodyRead,     \* per request: request.arrayBuffer() was called
  outbound,     \* per request: the arguments of its fetch call, once issued
  calls,        \* per request: fetch calls issued
  hops,         \* per request: HTTP requests sent to the backend
  backendResp,  \* per request: the backend response fetch resolved with
  caught,       \* per request: the error the catch block received
  resp          \* per request: the responses returned to the caller

\* FileUpload (component state, then what its handlers leave pending)
VARIABLES
  isDragging, isUploading, uploadProgress, selectedFile, uploadStatus,
  statusMessage, warningMessage,
  picked,       \* File objects handed to the component so far
  uploads,      \* handleUpload calls so far
  upload,       \* the handleUpload call suspended on an await, if any
  intervals,    \* live progress intervals, by the upload that set them
  timeouts      \* pending reset timeouts

\* DatabaseStatistics
VARIABLES
  stats, isLoading, isRefreshing, error, lastUpdated,
  mounted,      \* the effect has run
  started,      \* fetchStats calls so far
  fetches       \* the fetchStats calls suspended on an await

gatewayVars ==
  <<env, envAt, BACKEND_URL, inbound, st, hist, bodyRead, outbound, calls, hops,
    backendResp, caught, resp>>

uploadVars ==
  <<isDragging, isUploading, uploadProgress, selectedFile, uploadStatus,
    statusMessage, warningMessage, picked, uploads, upload, intervals, timeouts>>

statsVars ==
  <<stats, isLoading, isRefreshing, error, lastUpdated, mounted, started, fetches>>

uiVars == <<uploadVars, statsVars>>

vars == <<gatewayVars, uploadVars, statsVars>>

States ==
  {"Idle", "Received", "ReadingBody", "Dispatching", "Succeeded", "Failed", "Preflight"}
Terminal == {"Succeeded", "Failed", "Preflight"}

\* The route module is loaded with process.env in E; no request has arrived
\* at any of the slots R.
GatewayInit(R, E) ==
  /\ env \in E
  /\ envAt = [r \in R |-> None]
  /\ BACKEND_URL = ResolveBackendUrl(env)
  /\ inbound = [r \in R |-> None]
  /\ st = [r \in R |-> "Idle"]
  /\ hist = [r \in R |-> <<"Idle">>]
  /\ bodyRead = [r \in R |-> FALSE]
  /\ outbound = [r \in R |-> None]
  /\ calls = [r \in R |-> 0]
  /\ hops = [r \in R |-> 0]
  /\ backendResp = [r \in R |-> None]
  /\ caught = [r \in R |-> None]
  /\ resp = [r \in R |-> <<>>]

\* FileUpload as its useState calls leave it.
FileUploadInit ==
  /\ isDragging = FALSE
  /\ isUploading = FALSE
  /\ uploadProgress = 0
  /\ selectedFile = None
  /\ uploadStatus = "idle"
  /\ statusMessage = ""
  /\ warningMessage = ""
  /\ picked = 0
  /\ uploads = 0
  /\ upload = None
  /\ intervals = {}
  /\ timeouts = {}

\* DatabaseStatistics as its useState calls leave it, before the effect runs.
DatabaseStatisticsInit ==
  /\ stats = None
  /\ isLoading = TRUE
  /\ isRefreshing = FALSE
  /\ error = None
  /\ lastUpdated = None
  /\ mounted = FALSE
  /\ started = 0
  /\ fetches = {}

Init ==
  /\ GatewayInit(Reqs, Envs)
  /\ FileUploadInit
  /\ DatabaseStatisticsInit

Goto(r, s) ==
  /\ st' = [st EXCEPT ![r] = s]
  /\ hist' = [hist EXCEPT ![r] = Append(@, s)]

\* return <response> from the route's exported function.
Return(r, s, response) ==
  /\ Goto(r, s)
  /\ resp' = [resp EXCEPT ![r] = Append(@, response)]

\* The catch block: the 502 envelope.
Catch(r, thrown) ==
  /\ caught' = [caught EXCEPT ![r] = Some(thrown)]
  /\ Return(r, "Failed", ErrorEnvelope(thrown, BACKEND_URL))

\* Variant: the origin is resolved from process.env at each call.
FetchRereadsEnv(r) ==
  /\ outbound' = [outbound EXCEPT ![r] =
                    Some(OutboundRequest(ResolveBackendUrl(env), Get(inbound[r])))]
  /\ calls' = [calls EXCEPT ![r] = @ + 1]
  /\ hops' = [hops EXCEPT ![r] = @ + 1]
  /\ Goto(r, "Dispatching")
  /\ UNCHANGED <<caught, resp>>

\* await fetch(url.toString(), requestOptions): the call is issued.
Fetch(r) ==
  /\ outbound' = [outbound EXCEPT ![r] = Some(OutboundRequest(BACKEND_URL, Get(inbound[r])))]
  /\ calls' = [calls EXCEPT ![r] = @ + 1]
  /\ hops' = [hops EXCEPT ![r] = @ + 1]
  /\ Goto(r, "Dispatching")
  /\ UNCHANGED <<caught, resp>>

\* A request, one of Q, arrives and is routed to the export of its method.
ReceiveFrom(r, Q) ==
  /\ st[r] = "Idle"
  /\ \E q \in Q : inbound' = [inbound EXCEPT ![r] = Some(q)]
  /\ envAt' = [envAt EXCEPT ![r] = Some(env)]
  /\ Goto(r, "Received")
  /\ UNCHANGED <<uiVars, env, BACKEND_URL, bodyRead, outbound, calls, hops, backendResp,
                 caught, resp>>

Receive(r) == ReceiveFrom(r, Requests)

\* Variant: OPTIONS exported as the forwarding handler.
OptionsForwarded(r) ==
  /\ st[r] = "Received"
  /\ Get(inbound[r]).method = "OPTIONS"
  /\ Fetch(r)
  /\ UNCHANGED <<uiVars, env, envAt, BACKEND_URL, inbound, bodyRead, backendResp>>

\* Variant: the preflight answer given whatever the method.
OptionsAnyMethod(r) ==
  /\ st[r] = "Received"
  /\ Return(r, "Preflight", PreflightResponse)
  /\ UNCHANGED <<uiVars, env, envAt, BACKEND_URL, inbound, bodyRead, outbound, calls, hops,
                 backendResp, caught>>

\* export async function OPTIONS
Options(r) ==
  /\ st[r] = "Received"
  /\ Get(inbound[r]).method = "OPTIONS"
  /\ Return(r, "Preflight", PreflightResponse)
  /\ UNCHANGED <<uiVars, env, envAt, BACKEND_URL, inbound, bodyRead, outbound, calls, hops,
                 backendResp, caught>>

\* Variant: once a relay has failed, later requests are failed without a call.
HandlerStartBreaker(r) ==
  /\ st[r] = "Received"
  /\ Get(inbound[r]).method \in HandlerMethods
  /\ IF \E o \in DOMAIN st : o # r /\ st[o] = "Failed"
     THEN /\ \E e \in TransportErrors : Catch(r, e)
          /\ UNCHANGED <<bodyRead, outbound, calls, hops>>
     ELSE IF NewURLThrows(BACKEND_URL)
     THEN /\ Catch(r, InvalidUrlError)
          /\ UNCHANGED <<bodyRead, outbound, calls, hops>>
     ELSE IF ReadsBody(Get(inbound[r]))
     THEN /\ bodyRead' = [bodyRead EXCEPT ![r] = TRUE]
          /\ Goto(r, "ReadingBody")
          /\ UNCHANGED <<outbound, calls, hops, caught, resp>>
     ELSE /\ Fetch(r)
          /\ UNCHANGED bodyRead
  /\ UNCHANGED <<uiVars, env, envAt, BACKEND_URL, inbound, backendResp>>

\* handler, up to its first await: new URL() may throw; then the body read
\* when there is a body to read, the fetch call otherwise.
HandlerStart(r) ==
  /\ st[r] = "Received"
  /\ Get(inbound[r]).method \in HandlerMethods
  /\ IF NewURLThrows(BACKEND_URL)
     THEN /\ Catch(r, InvalidUrlError)
          /\ UNCHANGED <<bodyRead, outbound, calls, hops>>
     ELSE IF ReadsBody(Get(inbound[r]))
     THEN /\ bodyRead' = [bodyRead EXCEPT ![r] = TRUE]
          /\ Goto(r, "ReadingBody")
          /\ UNCHANGED <<outbound, calls, hops, caught, resp>>
     ELSE /\ Fetch(r)
          /\ UNCHANGED bodyRead
  /\ UNCHANGED <<uiVars, env, envAt, BACKEND_URL, inbound, backendResp>>

\* await request.arrayBuffer() resolves: the fetch call follows.
BodyRead(r) ==
  /\ st[r] = "ReadingBody"
  /\ Fetch(r)
  /\ UNCHANGED <<uiVars, env, envAt, BACKEND_URL, inbound, bodyRead, backendResp>>

\* await request.arrayBuffer() rejects (the caller aborted the upload).
BodyReadFails(r) ==
  /\ st[r] = "ReadingBody"
  /\ Catch(r, BodyReadError)
  /\ UNCHANGED <<uiVars, env, envAt, BACKEND_URL, inbound, bodyRead, outbound, calls, hops, backendResp>>

\* The backend answers with a redirect: fetch (redirect: 'follow', the
\* default) sends a further request without returning to the handler.
FetchRedirect(r) ==
  /\ st[r] = "Dispatching"
  /\ hops[r] < MaxHops
  /\ hops' = [hops EXCEPT ![r] = @ + 1]
  /\ UNCHANGED <<uiVars, env, envAt, BACKEND_URL, inbound, st, hist, bodyRead, outbound, calls,
                 backendResp, caught, resp>>

\* Variant: a rejected fetch is tried once more.
FetchRejectRetries(r) ==
  /\ st[r] = "Dispatching"
  /\ IF calls[r] < 2
     THEN /\ calls' = [calls EXCEPT ![r] = @ + 1]
          /\ UNCHANGED <<st, hist, caught, resp>>
     ELSE /\ \E e \in TransportErrors : Catch(r, e)
          /\ UNCHANGED calls
  /\ UNCHANGED <<uiVars, env, envAt, BACKEND_URL, inbound, bodyRead, outbound, hops, backendResp>>

\* fetch, or the read of the response body, rejects.
FetchReject(r) ==
  /\ st[r] = "Dispatching"
  /\ \E e \in TransportErrors : Catch(r, e)
  /\ UNCHANGED <<uiVars, env, envAt, BACKEND_URL, inbound, bodyRead, outbound, calls, hops, backendResp>>

\* fetch resolves with one of B and the response body is read: the response
\* is rebuilt, or the Response constructor throws and the catch block answers.
FetchResolveWith(r, B) ==
  /\ st[r] = "Dispatching"
  /\ \E b \in B :
       /\ backendResp' = [backendResp EXCEPT ![r] = Some(b)]
       /\ IF ResponseConstructorThrows(b.status, Some(b.body))
          THEN Catch(r, ConstructorError)
          ELSE /\ Return(r, "Succeeded", RelayResponse(b))
               /\ UNCHANGED caught
  /\ UNCHANGED <<uiVars, env, envAt, BACKEND_URL, inbound, bodyRead, outbound, calls, hops>>

FetchResolve(r) == FetchResolveWith(r, BackendResponses)

Next ==
  \E r \in Reqs :
    \/ Receive(r)
    \/ Options(r)
    \/ HandlerStart(r)
    \/ BodyRead(r)
    \/ BodyReadFails(r)
    \/ FetchRedirect(r)
    \/ FetchReject(r)
    \/ FetchResolve(r)

Spec == Init /\ [][Next]_vars

\* ------------------------------------------- two requests at a time
\* Two invocations of the route's exports whose awaits interleave, while
\* process.env is changed under the running process.
ConcReqs == {1, 2}

ConcEnvs ==
  {e \in Envs : /\ e.BACKEND_API_URL \in {Null, PrivateOrigin}
                /\ e.NEXT_PUBLIC_API_URL \in {Null, PublicOrigin}}

ConcRequests ==
  {q \in MethodBodyRequests :
     /\ q.method \in {"GET", "POST", "OPTIONS"}
     /\ q.params = None
     /\ q.body = IF q.method = "POST" THEN Some(<<255>>) ELSE None}

ConcResponses ==
  {b \in StatusResponses :
     /\ b.contentType = None
     /\ \/ b.status = 200 /\ b.body = <<123, 125>>
        \/ b.status = 204}

InitConc ==
  /\ GatewayInit(ConcReqs, ConcEnvs)
  /\ FileUploadInit
  /\ DatabaseStatisticsInit

\* process.env is assigned to while the process runs; the module-level
\* constant was computed when the module was loaded and is not computed again.
EnvChange ==
  /\ env' \in ConcEnvs \ {env}
  /\ UNCHANGED <<uiVars, envAt, BACKEND_URL, inbound, st, hist, bodyRead, outbound,
                 calls, hops, backendResp, caught, resp>>

ReceiveConc(r) == ReceiveFrom(r, ConcRequests)

FetchResolveConc(r) == FetchResolveWith(r, ConcResponses)

NextConc ==
  \/ \E r \in ConcReqs :
       \/ ReceiveConc(r)
       \/ Options(r)
       \/ HandlerStart(r)
       \/ BodyRead(r)
       \/ BodyReadFails(r)
       \/ FetchRedirect(r)
       \/ FetchReject(r)
       \/ FetchResolveConc(r)
  \/ EnvChange

SpecConc == InitConc /\ [][NextConc]_vars

\* ------------------------------------------------------------- FileUpload
\* File names, as their parts: the last part is what endsWith looks at.
FileNames == {<<"a", ".flextext">>, <<"b", ".eaf">>, <<"c", ".txt">>}

\* String.prototype.endsWith
EndsWith(name, suffix) == Len(name) > 0 /\ name[Len(name)] = suffix

\* The File objects a drop or the file dialog can hand over next.
NextFiles == [name : FileNames, id : {picked + 1}]

NoEnv == [BACKEND_API_URL |-> Null, NEXT_PUBLIC_API_URL |-> Null]

InitUpload ==
  /\ GatewayInit(Reqs, {NoEnv})
  /\ FileUploadInit
  /\ DatabaseStatisticsInit

handleDragEnter ==
  /\ isDragging' = TRUE
  /\ UNCHANGED <<gatewayVars, statsVars, isUploading, uploadProgress, selectedFile,
                 uploadStatus, statusMessage, warningMessage, picked, uploads,
                 upload, intervals, timeouts>>

handleDragLeave ==
  /\ isDragging' = FALSE
  /\ UNCHANGED <<gatewayVars, statsVars, isUploading, uploadProgress, selectedFile,
                 uploadStatus, statusMessage, warningMessage, picked, uploads,
                 upload, intervals, timeouts>>

\* What handleDrop and handleFileSelect do with files[0].
TakeFile(file) ==
  IF EndsWith(file.name, ".flextext") \/ EndsWith(file.name, ".eaf")
  THEN /\ selectedFile' = Some(file)
       /\ uploadStatus' = "idle"
       /\ UNCHANGED statusMessage
  ELSE /\ uploadStatus' = "error"
       /\ statusMessage' = "Please upload a .flextext or .eaf file"
       /\ UNCHANGED selectedFile

handleDrop ==
  /\ picked < MaxPicked
  /\ isDragging' = FALSE
  /\ \E file \in NextFiles : TakeFile(file)
  /\ picked' = picked + 1
  /\ UNCHANGED <<gatewayVars, statsVars, isUploading, uploadProgress, warningMessage,
                 uploads, upload, intervals, timeouts>>

handleFileSelect ==
  /\ picked < MaxPicked
  /\ \E file \in NextFiles : TakeFile(file)
  /\ picked' = picked + 1
  /\ UNCHANGED <<gatewayVars, statsVars, isDragging, isUploading, uploadProgress,
                 warningMessage, uploads, upload, intervals, timeouts>>

\* The upload button is rendered and not disabled.
UploadEnabled ==
  /\ IsSome(selectedFile)
  /\ ~(isUploading \/ uploadStatus = "success" \/ uploadStatus = "warning")

\* handleUpload, up to await fetch(endpoint, ...).
handleUpload ==
  /\ UploadEnabled
  /\ uploads < MaxUploads
  /\ isUploading' = TRUE
  /\ uploadProgress' = 0
  /\ uploadStatus' = "idle"
  /\ uploads' = uploads + 1
  /\ upload' = Some([id |-> uploads + 1, file |-> Get(selectedFile), stage |-> "fetch"])
  /\ intervals' = intervals \cup {uploads + 1}
  /\ UNCHANGED <<gatewayVars, statsVars, isDragging, selectedFile, statusMessage,
                 warningMessage, picked, timeouts>>

\* The callback of setInterval(..., 200).
progressInterval(i) ==
  /\ i \in intervals
  /\ IF uploadProgress >= 90
     THEN /\ intervals' = intervals \ {i}
          /\ uploadProgress' = 90
     ELSE /\ uploadProgress' = uploadProgress + 10
          /\ UNCHANGED intervals
  /\ UNCHANGED <<gatewayVars, statsVars, isDragging, isUploading, selectedFile,
                 uploadStatus, statusMessage, warningMessage, picked, uploads,
                 upload, timeouts>>

\* catch, then finally, of handleUpload.
UploadFailed ==
  /\ uploadStatus' = "error"
  /\ statusMessage' = "Upload failed. Please try again."
  /\ isUploading' = FALSE
  /\ upload' = None

\* await fetch(endpoint, ...) resolves, with response.ok or without.
uploadFetchResolves ==
  /\ IsSome(upload)
  /\ Get(upload).stage = "fetch"
  /\ intervals' = intervals \ {Get(upload).id}
  /\ uploadProgress' = 100
  /\ \E ok \in BOOLEAN :
       IF ok
       THEN /\ upload' = Some([Get(upload) EXCEPT !.stage = "json"])
            /\ UNCHANGED <<uploadStatus, statusMessage, isUploading>>
       ELSE UploadFailed
  /\ UNCHANGED <<gatewayVars, statsVars, isDragging, selectedFile, warningMessage,
                 picked, uploads, timeouts>>

\* await fetch(endpoint, ...) rejects: clearInterval is not reached.
uploadFetchRejects ==
  /\ IsSome(upload)
  /\ Get(upload).stage = "fetch"
  /\ UploadFailed
  /\ UNCHANGED <<gatewayVars, statsVars, isDragging, uploadProgress, selectedFile,
                 warningMessage, picked, uploads, intervals, timeouts>>

\* await response.json() rejects.
uploadJsonRejects ==
  /\ IsSome(upload)
  /\ Get(upload).stage = "json"
  /\ UploadFailed
  /\ UNCHANGED <<gatewayVars, statsVars, isDragging, uploadProgress, selectedFile,
                 warningMessage, picked, uploads, intervals, timeouts>>

\* await response.json() resolves, with skipped texts or without: the status
\* is shown and the reset is scheduled.
uploadJsonResolves ==
  /\ IsSome(upload)
  /\ Get(upload).stage = "json"
  /\ \E hasSkippedTexts \in BOOLEAN :
       /\ uploadStatus' = IF hasSkippedTexts THEN "warning" ELSE "success"
       /\ warningMessage' =
            IF hasSkippedTexts
            THEN "1 text(s) were skipped because they already exist: t1" ELSE ""
       /\ timeouts' = timeouts \cup
            {[upload |-> Get(upload).id, file |-> Get(upload).file,
              delay |-> IF hasSkippedTexts THEN 5000 ELSE 3000]}
  /\ statusMessage' =
       IF EndsWith(Get(upload).file.name, ".flextext")
       THEN "File uploaded successfully" ELSE "ELAN file parsed successfully"
  /\ isUploading' = FALSE
  /\ upload' = None
  /\ UNCHANGED <<gatewayVars, statsVars, isDragging, uploadProgress, selectedFile,
                 picked, uploads, intervals>>

\* Timeouts come due in the order of their deadlines: one set earlier with
\* no longer a delay comes due first.
Due(t) ==
  /\ t \in timeouts
  /\ ~\E o \in timeouts : o.upload < t.upload /\ o.delay <= t.delay

\* The callback of setTimeout(..., resetDelay).
resetTimeout(t) ==
  /\ Due(t)
  /\ timeouts' = timeouts \ {t}
  /\ selectedFile' = None
  /\ uploadStatus' = "idle"
  /\ uploadProgress' = 0
  /\ warningMessage' = ""
  /\ UNCHANGED <<gatewayVars, statsVars, isDragging, isUploading, statusMessage,
                 picked, uploads, upload, intervals>>

\* The remove button is rendered with the selected file, disabled while uploading.
handleRemoveFile ==
  /\ IsSome(selectedFile)
  /\ ~isUploading
  /\ selectedFile' = None
  /\ uploadStatus' = "idle"
  /\ statusMessage' = ""
  /\ warningMessage' = ""
  /\ uploadProgress' = 0
  /\ UNCHANGED <<gatewayVars, statsVars, isDragging, isUploading, picked, uploads,
                 upload, intervals, timeouts>>

\* Every File object, interval and timeout there can be.
Files == [name : FileNames, id : 1..MaxPicked]
Intervals == 1..MaxUploads
Timeouts == [upload : 1..MaxUploads, file : Files, delay : {3000, 5000}]

NextUpload ==
  \/ handleDragEnter
  \/ handleDragLeave
  \/ handleDrop
  \/ handleFileSelect
  \/ handleUpload
  \/ \E i \in Intervals : progressInterval(i)
  \/ uploadFetchResolves
  \/ uploadFetchRejects
  \/ uploadJsonResolves
  \/ uploadJsonRejects
  \/ \E t \in Timeouts : resetTimeout(t)
  \/ handleRemoveFile

SpecUpload == InitUpload /\ [][NextUpload]_vars

\* ----------------------------------------------------- DatabaseStatistics
InitStats ==
  /\ GatewayInit(Reqs, {NoEnv})
  /\ FileUploadInit
  /\ DatabaseStatisticsInit

\* fetchStats(isRefresh), up to await fetch(`/api/v1/linguistic/stats`).
fetchStats(isRefresh) ==
  /\ started < MaxFetches
  /\ IF isRefresh
     THEN isRefreshing' = TRUE /\ UNCHANGED isLoading
     ELSE isLoading' = TRUE /\ UNCHANGED isRefreshing
  /\ error' = None
  /\ started' = started + 1
  /\ fetches' = fetches \cup
       {[id |-> started + 1, isRefresh |-> isRefresh, stage |-> "fetch"]}
  /\ UNCHANGED <<stats, lastUpdated>>

\* The effect: the first fetchStats() and the databaseWiped listener.
useEffect ==
  /\ ~mounted
  /\ mounted' = TRUE
  /\ fetchStats(FALSE)
  /\ UNCHANGED <<gatewayVars, uploadVars>>

\* window dispatches databaseWiped.
handleDatabaseWiped ==
  /\ mounted
  /\ fetchStats(TRUE)
  /\ UNCHANGED <<gatewayVars, uploadVars, mounted>>

\* The Sync button is rendered (neither the loading nor the error view is
\* shown, and there are stats) and not disabled.
SyncEnabled ==
  /\ mounted
  /\ ~isLoading
  /\ error = None
  /\ IsSome(stats)
  /\ ~isRefreshing

\* onClick of the Sync button.
syncClick ==
  /\ SyncEnabled
  /\ fetchStats(TRUE)
  /\ UNCHANGED <<gatewayVars, uploadVars, mounted>>

\* finally, of fetchStats call f.
StatsFinally(f) ==
  /\ isLoading' = FALSE
  /\ isRefreshing' = FALSE
  /\ fetches' = fetches \ {f}

\* catch, then finally.
StatsFailed(f, message) ==
  /\ error' = Some(message)
  /\ StatsFinally(f)
  /\ UNCHANGED <<stats, lastUpdated>>

\* await fetch(...) resolves, with response.ok or without.
statsFetchResolves(f) ==
  /\ f \in fetches
  /\ f.stage = "fetch"
  /\ \E ok \in BOOLEAN :
       IF ok
       THEN /\ fetches' = (fetches \ {f}) \cup {[f EXCEPT !.stage = "json"]}
            /\ UNCHANGED <<stats, isLoading, isRefreshing, error, lastUpdated>>
       ELSE StatsFailed(f, "Failed to fetch statistics")
  /\ UNCHANGED <<gatewayVars, uploadVars, mounted, started>>

\* await fetch(...) rejects.
statsFetchRejects(f) ==
  /\ f \in fetches
  /\ f.stage = "fetch"
  /\ StatsFailed(f, "fetch failed")
  /\ UNCHANGED <<gatewayVars, uploadVars, mounted, started>>

\* await response.json() resolves.
statsJsonResolves(f) ==
  /\ f \in fetches
  /\ f.stage = "json"
  /\ stats' = Some([from |-> f.id])
  /\ lastUpdated' = Some(f.id)
  /\ StatsFinally(f)
  /\ UNCHANGED <<gatewayVars, uploadVars, error, mounted, started>>

\* await response.json() rejects.
statsJsonRejects(f) ==
  /\ f \in fetches
  /\ f.stage = "json"
  /\ StatsFailed(f, "Unexpected token")
  /\ UNCHANGED <<gatewayVars, uploadVars, mounted, started>>

\* Every fetchStats call there can be, at either of its awaits.
FetchCalls == [id : 1..MaxFetches, isRefresh : BOOLEAN, stage : {"fetch", "json"}]

NextStats ==
  \/ useEffect
  \/ handleDatabaseWiped
  \/ syncClick
  \/ \E f \in FetchCalls :
       \/ statsFetchResolves(f)
       \/ statsFetchRejects(f)
       \/ statsJsonResolves(f)
       \/ statsJsonRejects(f)

SpecStats == InitStats /\ [][NextStats]_vars

\* ==================================================================== claims
Req(r) == Get(inbound[r])
Arrived(r) == IsSome(inbound[r])
Issued(r) == IsSome(outbound[r])
Answer(r) == resp[r][1]

\* C1: an OPTIONS request, whatever its path, query, headers and body, makes
\* no outbound call and is answered 204 with no body and the four preflight
\* headers (PATCH among the allowed methods, Max-Age 86400).
C1_PreflightNoBackend ==
  \A r \in Reqs :
    (Arrived(r) /\ Req(r).method = "OPTIONS") =>
      /\ calls[r] = 0 /\ hops[r] = 0 /\ ~Issued(r)
      /\ st[r] \in {"Received", "Preflight"}
      /\ st[r] = "Preflight" =>
           /\ Len(resp[r]) = 1
           /\ Answer(r).status = 204
           /\ Answer(r).body = None
           /\ Answer(r).headers =
                ("Access-Control-Allow-Origin" :> "*") @@
                ("Access-Control-Allow-Methods" :> "GET, POST, PUT, DELETE, PATCH, OPTIONS") @@
                ("Access-Control-Allow-Headers" :> "Content-Type, Authorization") @@
                ("Access-Control-Max-Age" :> "86400")

C1_Witness ==
  \E r \in Reqs :
    /\ st[r] = "Preflight"
    /\ Req(r).method = "OPTIONS"
    /\ IsSome(Req(r).params)
    /\ Req(r).query # <<>>

\* The outbound call of r could not be completed: fetch was called and rejected.
FetchRejected(r) ==
  /\ st[r] = "Failed"
  /\ calls[r] >= 1
  /\ backendResp[r] = None

\* C2: when the outbound call of a non-OPTIONS request cannot be completed the
\* caller gets one response: status 502, error "Backend connection failed",
\* message the failure's description, backend_url the resolved origin (the
\* origin of the outbound URL, not the URL).
C2_TransportFailureEnvelope ==
  \A r \in Reqs :
    FetchRejected(r) =>
      /\ Req(r).method # "OPTIONS"
      /\ Len(resp[r]) = 1
      /\ Answer(r).status = 502
      /\ Get(Answer(r).body).error = "Backend connection failed"
      /\ Get(caught[r]) \in TransportErrors
      /\ Get(Answer(r).body).message = Get(caught[r]).message
      /\ Get(Answer(r).body).backend_url = ResolveBackendUrl(env)
      /\ Get(Answer(r).body).backend_url = Get(outbound[r]).url.origin
      /\ DOMAIN Get(Answer(r).body) = {"error", "message", "backend_url"}

C2_Witness ==
  \E r \in Reqs :
    /\ FetchRejected(r)
    /\ Req(r).method = "POST"
    /\ Get(Answer(r).body).message = "fetch failed"
    /\ Get(Answer(r).body).backend_url = PrivateOrigin

\* C3: the 502 envelope is produced only by a transport failure of the
\* outbound call: every request whose backend call completed with a response
\* gets that response relayed, with the backend's status, and not a 502 of the
\* gateway's own.
C3_CompletedCallIsRelayed ==
  \A r \in Reqs :
    IsSome(backendResp[r]) =>
      /\ st[r] = "Succeeded"
      /\ Answer(r).status = Get(backendResp[r]).status
      /\ Answer(r).status # 502

\* The runs of one request, as the sequences of states it passes through.
\* ReadingBody is the part of Received in which the handler awaits the
\* inbound body; the outbound call has not been issued there.
Prefixes(p) == {SubSeq(p, 1, k) : k \in 1..Len(p)}

ClaimedRuns ==
  UNION {Prefixes(p) : p \in
    {<<"Idle", "Received", "Preflight">>,
     <<"Idle", "Received", "Dispatching", "Succeeded">>,
     <<"Idle", "Received", "Dispatching", "Failed">>,
     <<"Idle", "Received", "ReadingBody", "Dispatching", "Succeeded">>,
     <<"Idle", "Received", "ReadingBody", "Dispatching", "Failed">>}}

EarlyFailureRuns ==
  {<<"Idle", "Received", "Failed">>,
   <<"Idle", "Received", "ReadingBody", "Failed">>}

\* What every run has in common, in the claim and in the code.
RunShape(r) ==
  /\ (Arrived(r) /\ st[r] # "Received") =>
       (st[r] = "Preflight" <=> Req(r).method = "OPTIONS")
  /\ \A i, j \in 1..Len(hist[r]) : hist[r][i] = hist[r][j] => i = j
  /\ \A i \in 1..Len(hist[r]) : hist[r][i] \in Terminal => i = Len(hist[r])
  /\ hist[r][Len(hist[r])] = st[r]
  /\ Len(resp[r]) = IF st[r] \in Terminal THEN 1 ELSE 0

\* C4 (as claimed): Received leads to Preflight exactly for OPTIONS, else to
\* Dispatching; Succeeded and Failed are entered only from Dispatching, after
\* the outbound call has been issued; no state is left twice or re-entered and
\* each request gets exactly one response.
C4_ClaimedStateMachine ==
  \A r \in Reqs :
    /\ RunShape(r)
    /\ hist[r] \in ClaimedRuns
    /\ st[r] \in {"Succeeded", "Failed"} => calls[r] >= 1

\* C4 (amended): as claimed, except that Failed is also entered directly from
\* Received, with no outbound call issued, when preparing the outbound request
\* throws (new URL() or the read of the inbound body); Succeeded is entered
\* only from Dispatching.
C4_StateMachine ==
  \A r \in Reqs :
    /\ RunShape(r)
    /\ hist[r] \in ClaimedRuns \cup EarlyFailureRuns
    /\ st[r] = "Succeeded" => calls[r] = 1
    /\ st[r] = "Failed" => (calls[r] = 0 <=> hist[r] \in EarlyFailureRuns)
    /\ hist[r] \in EarlyFailureRuns =>
         Get(caught[r]) \in {InvalidUrlError, BodyReadError}

C4_Witness ==
  \E r \in Reqs :
    /\ hist[r] = <<"Idle", "Received", "ReadingBody", "Failed">>
    /\ calls[r] = 0
    /\ Len(resp[r]) = 1

\* C5 (as claimed): a non-OPTIONS request issues exactly one outbound call,
\* never zero and never a second one.
C5_ExactlyOneCall ==
  \A r \in Reqs :
    (Arrived(r) /\ Req(r).method # "OPTIONS") =>
      /\ calls[r] <= 1
      /\ st[r] \in Terminal => calls[r] = 1

\* C5 (amended): a non-OPTIONS request calls fetch at most once, with no retry
\* whether the call succeeds or fails, and exactly once unless preparing the
\* outbound request throws first (new URL() or the read of the inbound body),
\* in which case it calls fetch not at all.
C5_AtMostOneCall ==
  \A r \in Reqs :
    (Arrived(r) /\ Req(r).method # "OPTIONS") =>
      /\ calls[r] <= 1
      /\ st[r] \in {"Dispatching", "Succeeded"} => calls[r] = 1
      /\ st[r] = "Failed" =>
           calls[r] = IF Get(caught[r]) \in {InvalidUrlError, BodyReadError} THEN 0 ELSE 1
      /\ st[r] \in {"Received", "ReadingBody"} => calls[r] = 0

C5_Witness ==
  \E r \in Reqs :
    /\ FetchRejected(r)
    /\ calls[r] = 1
    /\ Req(r).method = "PUT"

\* C6: the outbound headers hold none of host, connection, keep-alive,
\* transfer-encoding, upgrade, content-length, names compared without case,
\* and every other inbound header with its value unchanged.
C6_HeaderFilter ==
  \A r \in Reqs :
    Issued(r) =>
      LET in  == Req(r).headers
          out == Get(outbound[r]).headers
          deny == {"host", "connection", "keep-alive", "transfer-encoding",
                   "upgrade", "content-length"}
      IN /\ \A k \in DOMAIN out : ToLowerCase(k) \notin deny
         /\ \A n \in DOMAIN in :
              ToLowerCase(n) \notin deny =>
                /\ ToLowerCase(n) \in DOMAIN out
                /\ out[ToLowerCase(n)] = in[n]

C6_Witness ==
  \E r \in Reqs :
    /\ Issued(r)
    /\ DOMAIN Req(r).headers = {"Content-Length", "X-Custom"}
    /\ Req(r).headers["X-Custom"] = "v2"
    /\ DOMAIN Get(outbound[r]).headers = {"x-custom"}

\* C7: for GET and HEAD the inbound body is neither read nor forwarded, also
\* when the inbound request carries one.
C7_NoBodyForGetHead ==
  \A r \in Reqs :
    (Arrived(r) /\ Req(r).method \in {"GET", "HEAD"}) =>
      /\ ~bodyRead[r]
      /\ st[r] # "ReadingBody"
      /\ Issued(r) => Get(outbound[r]).body = None

C7_Witness ==
  \E r \in Reqs :
    /\ Issued(r)
    /\ Req(r).method = "HEAD"
    /\ Req(r).body = Some(<<255>>)
    /\ st[r] = "Succeeded"

\* C8: for POST, PUT, PATCH and DELETE the outbound body is the inbound body,
\* byte for byte, when that is not empty; the outbound request carries no body
\* when the inbound body is absent or of length zero.
C8_BodyPassthrough ==
  \A r \in Reqs :
    (Issued(r) /\ Req(r).method \in {"POST", "PUT", "PATCH", "DELETE"}) =>
      IF IsSome(Req(r).body) /\ Len(Get(Req(r).body)) > 0
      THEN /\ Get(outbound[r]).body = Req(r).body
           /\ bodyRead[r]
      ELSE Get(outbound[r]).body = None

C8_Witness ==
  \E r \in Reqs :
    /\ Issued(r)
    /\ Req(r).method = "PATCH"
    /\ Req(r).body = Some(<<255>>)
    /\ Get(outbound[r]).body = Some(<<255>>)

\* C9: for every sequence of path segments the outbound URL is the resolved
\* origin followed by /api/v1/ and the segments joined by "/"; no segment
\* gives exactly /api/v1/.
C9_OutboundPath ==
  \A r \in Reqs :
    Issued(r) =>
      LET segs == IF IsSome(Req(r).params) THEN Get(Req(r).params) ELSE <<>>
      IN /\ Get(outbound[r]).url.origin = ResolveBackendUrl(env)
         /\ Get(outbound[r]).url.pathname = <<"/api/v1/">> \o Join(segs, "/")

\* C10: the outbound query holds exactly the inbound query parameters: the
\* same pairs, as often, unchanged and in the inbound order.
C10_QueryPreserved ==
  \A r \in Reqs :
    Issued(r) => Get(outbound[r]).url.search = Req(r).query

\* The backend call of r completed with a response.
Completed(r) == IsSome(backendResp[r])
Backend(r) == Get(backendResp[r])
Relayed(r) == st[r] = "Succeeded"

\* C11: whenever the backend call completes with a response, the caller's
\* response carries the backend's status code and status text, whatever the
\* status (204 and 304 included).
C11_StatusRelayed ==
  \A r \in Reqs :
    Completed(r) =>
      /\ Len(resp[r]) = 1
      /\ Answer(r).status = Backend(r).status
      /\ Answer(r).statusText = StatusText(Backend(r).status)

\* C12: whenever the backend call completes with a response, the body the
\* caller gets is the backend's body, byte for byte (and a 201 with a JSON
\* body and Content-Type application/json arrives as such).
C12_BodyRelayed ==
  \A r \in Reqs :
    Completed(r) =>
      /\ Relayed(r)
      /\ Answer(r).body = Some(Backend(r).body)
      /\ (Backend(r).status = 201 /\ Backend(r).contentType = Some("application/json")) =>
           /\ Answer(r).status = 201
           /\ Answer(r).headers["Content-Type"] = "application/json"

\* C13: in a relayed response Content-Type is the backend's whenever the
\* backend sent the header and application/json only if it did not;
\* Cache-Control is the backend's whenever sent, no-store if absent.
C13_CopiedHeaders ==
  \A r \in Reqs :
    Relayed(r) =>
      /\ Answer(r).headers["Content-Type"] =
           IF IsSome(Backend(r).contentType) THEN Get(Backend(r).contentType)
           ELSE "application/json"
      /\ Answer(r).headers["Cache-Control"] =
           IF IsSome(Backend(r).cacheControl) THEN Get(Backend(r).cacheControl)
           ELSE "no-store"

\* C14: the headers of a relayed response are exactly Content-Type,
\* Cache-Control and the three CORS headers with their constant values,
\* whatever the backend sent; no other backend header reaches the caller.
C14_RelayedHeaderSet ==
  \A r \in Reqs :
    Relayed(r) =>
      /\ DOMAIN Answer(r).headers =
           {"Content-Type", "Cache-Control", "Access-Control-Allow-Origin",
            "Access-Control-Allow-Methods", "Access-Control-Allow-Headers"}
      /\ Answer(r).headers["Access-Control-Allow-Origin"] = "*"
      /\ Answer(r).headers["Access-Control-Allow-Methods"] =
           "GET, POST, PUT, DELETE, OPTIONS"
      /\ Answer(r).headers["Access-Control-Allow-Headers"] =
           "Content-Type, Authorization"

C14_Witness ==
  \E r \in Reqs :
    /\ Relayed(r)
    /\ "Access-Control-Allow-Origin" \in DOMAIN Backend(r).extra
    /\ "X-Internal" \in DOMAIN Backend(r).extra
    /\ Answer(r).headers["Access-Control-Allow-Origin"] = "*"

\* C15: the resolved origin is BACKEND_API_URL whenever that is configured
\* (set to a value that is not empty), whatever NEXT_PUBLIC_API_URL holds;
\* else NEXT_PUBLIC_API_URL when configured; http://localhost:8000 only when
\* neither is.
Configured(v) == v # Null /\ v # ""

C15_OriginPrecedence ==
  /\ Configured(env.BACKEND_API_URL) => BACKEND_URL = env.BACKEND_API_URL
  /\ (~Configured(env.BACKEND_API_URL) /\ Configured(env.NEXT_PUBLIC_API_URL)) =>
       BACKEND_URL = env.NEXT_PUBLIC_API_URL
  /\ BACKEND_URL = "http://localhost:8000" <=>
       (~Configured(env.BACKEND_API_URL) /\ ~Configured(env.NEXT_PUBLIC_API_URL))

C15_Witness ==
  \E r \in Reqs :
    /\ Configured(env.BACKEND_API_URL)
    /\ Configured(env.NEXT_PUBLIC_API_URL)
    /\ Issued(r)
    /\ Get(outbound[r]).url.origin = PrivateOrigin

\* All the state of one request.
Slot(r) ==
  <<envAt[r], inbound[r], st[r], hist[r], bodyRead[r], outbound[r], calls[r],
    hops[r], backendResp[r], caught[r], resp[r]>>

\* Every outbound URL issued and every 502 envelope returned so far names the
\* module-level origin.
OneOriginUsed ==
  \A r \in ConcReqs :
    /\ Issued(r) => Get(outbound[r]).url.origin = BACKEND_URL
    /\ st[r] = "Failed" => Get(Answer(r).body).backend_url = BACKEND_URL

\* C16: the origin resolved when the module was loaded never changes; every
\* request, whenever it runs and whatever process.env holds by then, uses it
\* for its outbound URL and for backend_url of the 502 envelope; a step of a
\* request handler writes neither the origin nor process.env.
C16_OriginFixed ==
  [][/\ BACKEND_URL' = BACKEND_URL
     /\ OneOriginUsed'
     /\ (\E r \in ConcReqs : Slot(r)' # Slot(r)) => env' = env]_vars

C16_Witness ==
  \E r1, r2 \in ConcReqs :
    /\ Issued(r1) /\ Issued(r2)
    /\ envAt[r1] # envAt[r2]
    /\ ResolveBackendUrl(Get(envAt[r1])) = BACKEND_URL
    /\ ResolveBackendUrl(Get(envAt[r2])) # BACKEND_URL
    /\ ResolveBackendUrl(env) # BACKEND_URL
    /\ Get(outbound[r1]).url.origin = Get(outbound[r2]).url.origin
    /\ st[r2] = "Failed"
    /\ Get(Answer(r2).body).backend_url = Get(outbound[r1]).url.origin

\* What the world outside the gateway gave request r: the request, the
\* outcome of reading its body and of its own outbound call.
OwnInputs(r) == <<inbound[r], backendResp[r], caught[r]>>

\* What the gateway did for request r (the redirects followed inside fetch
\* are the backend's doing).
OwnOutcome(r) == <<st[r], hist[r], bodyRead[r], outbound[r], calls[r], resp[r]>>

\* A failure is the failure of the request's own step: of its own body read,
\* of its own outbound call or of the rebuilding of its own backend response.
OwnFailure(r) ==
  st[r] = "Failed" =>
    /\ Get(caught[r]) = BodyReadError => bodyRead[r] /\ calls[r] = 0
    /\ Get(caught[r]) \in TransportErrors => calls[r] = 1 /\ backendResp[r] = None
    /\ Get(caught[r]) = ConstructorError => calls[r] = 1 /\ IsSome(backendResp[r])
    /\ Get(caught[r]) \in
         {BodyReadError, ConstructorError, InvalidUrlError} \cup TransportErrors

\* C17: a step of one request leaves every other request's state as it is,
\* and what a finished request got (outbound request, response) is a function
\* of its own inputs: two finished requests with the same inputs have the same
\* outcome, whatever happened to the other in between, and a request fails
\* only by a failure of its own.
C17_Independent ==
  [][/\ \A r, o \in ConcReqs : (r # o /\ Slot(r)' # Slot(r)) => Slot(o)' = Slot(o)
     /\ \A r \in ConcReqs : OwnFailure(r)'
     /\ \A r, o \in ConcReqs :
          (st'[r] \in Terminal /\ st'[o] \in Terminal /\ OwnInputs(r)' = OwnInputs(o)')
            => OwnOutcome(r)' = OwnOutcome(o)']_vars

C17_Witness ==
  \E r, o \in ConcReqs :
    /\ inbound[r] = inbound[o]
    /\ FetchRejected(r)
    /\ Answer(r).status = 502
    /\ st[o] = "Succeeded"
    /\ outbound[o] = outbound[r]
    /\ Answer(o).status = 200

\* C18: the reset scheduled by a successful upload clears only that upload:
\* when another file has been selected (or its upload started) by the time
\* the timeout fires, the selection, its status and its progress stay.
C18_ResetOnlyOwnUpload ==
  [][\A t \in timeouts :
       (t \notin timeouts' /\ IsSome(selectedFile) /\ selectedFile # Some(t.file))
         => /\ selectedFile' = selectedFile
            /\ uploadStatus' = uploadStatus
            /\ uploadProgress' = uploadProgress]_vars

\* A refresh is a fetchStats(true) call.
RefreshInFlight == \E f \in fetches : f.isRefresh

\* C19: isRefreshing is true (the Sync button disabled) as long as a refresh
\* is in flight, and once the component has started and no fetchStats call is
\* in flight isLoading and isRefreshing are both false.
C19_FlagsTrackFetches ==
  /\ RefreshInFlight => isRefreshing
  /\ (mounted /\ fetches = {}) => (~isLoading /\ ~isRefreshing)

====
